---- MODULE Spec2Model ----
(***************************************************************************)
(* ControllerSpreadFilter: the Filter predicate of the controller-spread   *)
(* scheduler plugin (pkg/controllerspread/controller_spread.go).           *)
(*                                                                         *)
(* Go strings that the code parses or formats are sequences of one-        *)
(* character strings; an unset *int32 is the empty sequence and a set one  *)
(* the one-element sequence; a nil error is the empty sequence.            *)
(***************************************************************************)
EXTENDS Integers, Sequences, FiniteSets, TLC

VARIABLES
  pod,            \* the pod handed to Filter (Name, OwnerReferences, Phase, NodeName)
  nodeName,       \* nodeInfo.Node().Name, the candidate node
  ctxDone,        \* TRUE when ctx is cancelled or past its deadline
  ctrlStore,      \* the four controller listers: <<kind, name>> -> object
  podStore,       \* the pod lister's content for pod.Namespace
  podListErr,     \* error the pod lister returns from List (<<>> is nil)
  pc,             \* position inside Filter: idle, start, fetch, list, done
  controller,     \* local: ControllerInfo
  desired,        \* local: desired
  minHostsVal,    \* local: minHostsVal
  requiredHosts,  \* local: requiredHosts
  status,         \* the *framework.Status returned
  reads,          \* store reads performed by this invocation, in order
  bindings        \* <<pod name, node>>: bindings made that the pod lister
                  \* does not show yet

vars == <<pod, nodeName, ctxDone, ctrlStore, podStore, podListErr, pc,
          controller, desired, minHostsVal, requiredHosts, status, reads,
          bindings>>

---------------------------------------------------------------------------
(* Bounds of the model *)

MaxOwners == 2        \* owner references on the pod being filtered
MaxAnnLen == 2        \* length of the enumerated annotation values
MaxListed == 3        \* pods in the listing of one Filter invocation
MaxDesired == 4       \* largest replicas / parallelism stored on a controller
MaxClusterPods == 3   \* pods created in the scheduling specification

---------------------------------------------------------------------------
(* Program constants *)

minHostsAnnotationKey == "controller-spread-scheduler/min-hosts"

ReplicaSetType == "ReplicaSet"

StatefulSetType == "StatefulSet"

JobType == "Job"

CronJobType == "CronJob"

ControllerTypes == {ReplicaSetType, StatefulSetType, JobType, CronJobType}

MaxInt32 == 2147483647

Success == "Success"

Unschedulable == "Unschedulable"

Error == "Error"

PodPending == "Pending"

PodRunning == "Running"

PodSucceeded == "Succeeded"

PodFailed == "Failed"

NoErr == <<>>

\* An object without annotations (a nil map).
NoAnnotations == [k \in {} |-> <<>>]

\* The zero ControllerInfo{}.
NoController == [Type |-> "", UID |-> "", Name |-> ""]

\* No status returned yet.
NoStatus == [code |-> "", reason |-> <<>>]

NewStatus(code, reason) == [code |-> code, reason |-> reason]

---------------------------------------------------------------------------
(* strconv.ParseInt(val, 10, 32) and fmt's %d *)

Digits == <<"0", "1", "2", "3", "4", "5", "6", "7", "8", "9">>

IsDigit(c) == \E d \in 1..10 : Digits[d] = c

DigitVal(c) == (CHOOSE d \in 1..10 : Digits[d] = c) - 1

\* Accumulates the magnitude of s[i..]. big = 0: the magnitude is n and fits
\* int32; big = 1: it is exactly 2^31; big = 2: it is larger than 2^31.
RECURSIVE parseMagnitude(_, _, _, _)
parseMagnitude(s, i, n, big) ==
  IF i > Len(s) THEN [err |-> "", n |-> n, big |-> big]
  ELSE IF ~IsDigit(s[i]) THEN [err |-> "syntax", n |-> 0, big |-> 0]
  ELSE LET d == DigitVal(s[i]) IN
       IF big > 0 THEN parseMagnitude(s, i + 1, n, 2)
       ELSE IF n > (MaxInt32 - d) \div 10
            THEN parseMagnitude(s, i + 1, MaxInt32,
                                IF n = MaxInt32 \div 10 /\ d = 8 THEN 1 ELSE 2)
            ELSE parseMagnitude(s, i + 1, n * 10 + d, 0)

\* Faulty variant of ParseInt32: an out-of-range value saturates without an error.
ParseInt32_saturating(s) ==
  IF Len(s) = 0 THEN [val |-> 0, err |-> "syntax"]
  ELSE LET neg  == s[1] = "-"
           body == IF s[1] \in {"+", "-"} THEN SubSeq(s, 2, Len(s)) ELSE s
           m    == parseMagnitude(body, 1, 0, 0)
       IN IF Len(body) = 0 \/ m.err # "" THEN [val |-> 0, err |-> "syntax"]
          ELSE IF m.big > 0 THEN [val |-> IF neg THEN -MaxInt32 - 1 ELSE MaxInt32, err |-> ""]
          ELSE [val |-> IF neg THEN -m.n ELSE m.n, err |-> ""]

\* strconv.ParseInt(s, 10, 32) for Len(s) < 19 (no uint64 overflow).
ParseInt32(s) ==
  IF Len(s) = 0 THEN [val |-> 0, err |-> "syntax"]
  ELSE LET neg  == s[1] = "-"
           body == IF s[1] \in {"+", "-"} THEN SubSeq(s, 2, Len(s)) ELSE s
           m    == parseMagnitude(body, 1, 0, 0)
       IN IF Len(body) = 0 \/ m.err # "" THEN [val |-> 0, err |-> "syntax"]
          ELSE IF ~neg /\ m.big >= 1 THEN [val |-> MaxInt32, err |-> "range"]
          ELSE IF neg /\ m.big = 2 THEN [val |-> -MaxInt32 - 1, err |-> "range"]
          ELSE IF neg /\ m.big = 1 THEN [val |-> -MaxInt32 - 1, err |-> ""]
          ELSE [val |-> IF neg THEN -m.n ELSE m.n, err |-> ""]

RECURSIVE FormatNat(_)
FormatNat(n) ==
  IF n < 10 THEN <<Digits[n + 1]>>
  ELSE FormatNat(n \div 10) \o <<Digits[(n % 10) + 1]>>

\* The %d verb of fmt.Sprintf.
FormatInt(n) == IF n < 0 THEN <<"-">> \o FormatNat(-n) ELSE FormatNat(n)

---------------------------------------------------------------------------
(* Helpers of the plugin *)

\* Faulty variant of getControllerInfo: an owner with an empty UID is accepted.
RECURSIVE getControllerInfoFrom_emptyUID(_, _)
getControllerInfoFrom_emptyUID(refs, i) ==
  IF i > Len(refs) THEN [info |-> NoController, ok |-> FALSE]
  ELSE LET ownerRef == refs[i] IN
       IF ownerRef.Name = "" THEN getControllerInfoFrom_emptyUID(refs, i + 1)
       ELSE IF ownerRef.Kind \in ControllerTypes
            THEN [info |-> [Type |-> ownerRef.Kind, UID |-> ownerRef.UID,
                            Name |-> ownerRef.Name],
                  ok |-> TRUE]
            ELSE getControllerInfoFrom_emptyUID(refs, i + 1)

\* The loop of getControllerInfo from index i on.
RECURSIVE getControllerInfoFrom(_, _)
getControllerInfoFrom(refs, i) ==
  IF i > Len(refs) THEN [info |-> NoController, ok |-> FALSE]
  ELSE LET ownerRef == refs[i] IN
       IF ownerRef.UID = "" \/ ownerRef.Name = ""
       THEN getControllerInfoFrom(refs, i + 1)
       ELSE IF ownerRef.Kind \in ControllerTypes
            THEN [info |-> [Type |-> ownerRef.Kind, UID |-> ownerRef.UID,
                            Name |-> ownerRef.Name],
                  ok |-> TRUE]
            ELSE getControllerInfoFrom(refs, i + 1)

getControllerInfo(p) == getControllerInfoFrom(p.OwnerReferences, 1)

\* Faulty variant of parseMinHostsAnnotation: the lower limit is 1 instead of 2.
parseMinHostsAnnotation_from1(val) ==
  LET r == ParseInt32(val) IN
  IF r.err = "" /\ r.val >= 1 /\ r.val <= MaxInt32 THEN r.val ELSE 2

parseMinHostsAnnotation(val) ==
  LET r == ParseInt32(val) IN
  IF r.err = "" /\ r.val >= 2 /\ r.val <= MaxInt32 THEN r.val ELSE 2

\* Faulty variant of min: the comparison is reversed.
min_reversed(a, b) == IF a > b THEN a ELSE b

min(a, b) == IF a < b THEN a ELSE b

isOwnedByController(p, c) ==
  \E i \in 1..Len(p.OwnerReferences) :
     /\ p.OwnerReferences[i].Kind = c.Type
     /\ p.OwnerReferences[i].UID = c.UID

---------------------------------------------------------------------------
(* The stores Filter reads *)

\* <kind>Lister.<Kind>s(namespace).Get(name): the object, or an error.
listerGet(store, kind, name) ==
  IF <<kind, name>> \in DOMAIN store
  THEN [obj |-> store[<<kind, name>>], err |-> NoErr]
  ELSE [obj |-> [count |-> <<>>, Annotations |-> NoAnnotations],
        err |-> <<"not found">>]

\* Faulty variant of podListerList: a cancelled context fails the listing.
podListerList_ctx(store, err, done) ==
  IF err # NoErr THEN [pods |-> {}, err |-> err]
  ELSE IF done THEN [pods |-> {}, err |-> <<"context canceled">>]
  ELSE [pods |-> store, err |-> NoErr]

\* podLister.Pods(namespace).List(labels.Everything()); the lister takes no
\* context, so done (the state of ctx) does not reach it.
podListerList(store, err, done) ==
  IF err # NoErr THEN [pods |-> {}, err |-> err]
  ELSE [pods |-> store, err |-> NoErr]

---------------------------------------------------------------------------
(* Filter, split at its store reads *)

\* The count field of the fetched object, 1 when the pointer is nil.
desiredOf(obj) == IF obj.count # <<>> THEN obj.count[1] ELSE 1

\* minHostsVal after the annotation lookup.
minHostsOf(annotations) ==
  IF minHostsAnnotationKey \in DOMAIN annotations
  THEN parseMinHostsAnnotation(annotations[minHostsAnnotationKey])
  ELSE 2

\* Faulty variant of lookupFailedStatus: the lookup error is propagated.
lookupFailedStatus_error == NewStatus(Error, <<"could not retrieve controller">>)

\* The status returned when the controller lookup fails.
lookupFailedStatus == NewStatus(Success, <<>>)

\* Faulty variant of singleReplica: 1 is not covered.
singleReplica_strict(d) == d < 1

\* desired <= 1: nothing to spread.
singleReplica(d) == d <= 1

\* Faulty variant of listFailedStatus: the listing error is swallowed.
listFailedStatus_admit(err) == NewStatus(Success, <<>>)

\* The status returned when the pod listing fails.
listFailedStatus(err) == NewStatus(Error, <<"error listing pods: ">> \o err)

\* Faulty variant of isActivePhase: only running pods count.
isActivePhase_running(phase) == phase = PodRunning

isActivePhase(phase) == phase = PodRunning \/ phase = PodPending

controllerPodsOf(allPods, c) ==
  {p \in allPods : isOwnedByController(p, c) /\ isActivePhase(p.Phase)}

nodeSetOf(controllerPods) ==
  {p.NodeName : p \in {q \in controllerPods : q.NodeName # ""}}

\* Faulty variant of effectiveSpreadOf: the candidate node is always counted.
effectiveSpreadOf_always(nodeSet, candidate) == Cardinality(nodeSet) + 1

effectiveSpreadOf(nodeSet, candidate) ==
  Cardinality(nodeSet) + (IF candidate \notin nodeSet THEN 1 ELSE 0)

rejectStatus(required) ==
  NewStatus(Unschedulable,
            <<"must schedule across at least ">> \o FormatInt(required)
               \o <<" distinct nodes">>)

\* Faulty variant of spreadStatus: two listed pods still skip the check.
spreadStatus_skipTwo(allPods, c, required, candidate) ==
  LET controllerPods == controllerPodsOf(allPods, c)
      nodeSet        == nodeSetOf(controllerPods)
  IN IF Cardinality(controllerPods) <= 2 THEN NewStatus(Success, <<>>)
     ELSE IF effectiveSpreadOf(nodeSet, candidate) < required
          THEN rejectStatus(required)
          ELSE NewStatus(Success, <<>>)

\* Lines 256-289: the verdict over a successfully listed allPods.
spreadStatus(allPods, c, required, candidate) ==
  LET controllerPods == controllerPodsOf(allPods, c)
      nodeSet        == nodeSetOf(controllerPods)
  IN IF Cardinality(controllerPods) <= 1 THEN NewStatus(Success, <<>>)
     ELSE IF effectiveSpreadOf(nodeSet, candidate) < required
          THEN rejectStatus(required)
          ELSE NewStatus(Success, <<>>)

\* getControllerInfo and the early return when the pod has no controller.
FilterResolve ==
  /\ pc = "start"
  /\ LET r == getControllerInfo(pod) IN
       /\ controller' = r.info
       /\ IF r.ok
          THEN /\ pc' = "fetch"
               /\ minHostsVal' = 2
               /\ status' = status
          ELSE /\ pc' = "done"
               /\ minHostsVal' = minHostsVal
               /\ status' = NewStatus(Success, <<>>)
  /\ UNCHANGED <<pod, nodeName, ctxDone, ctrlStore, podStore, podListErr,
                 desired, requiredHosts, reads, bindings>>

\* The switch on controller.Type, the annotation lookup, requiredHosts and
\* the desired <= 1 return.
FilterFetch ==
  /\ pc = "fetch"
  /\ IF controller.Type \notin ControllerTypes
     THEN /\ pc' = "done"
          /\ status' = NewStatus(Success, <<>>)
          /\ UNCHANGED <<desired, minHostsVal, requiredHosts, reads>>
     ELSE LET got == listerGet(ctrlStore, controller.Type, controller.Name) IN
          /\ reads' = Append(reads, [op |-> "Get", kind |-> controller.Type,
                                     name |-> controller.Name,
                                     ok |-> got.err = NoErr, ctx |-> ctxDone])
          /\ IF got.err # NoErr
             THEN /\ pc' = "done"
                  /\ status' = lookupFailedStatus
                  /\ UNCHANGED <<desired, minHostsVal, requiredHosts>>
             ELSE /\ desired' = desiredOf(got.obj)
                  /\ minHostsVal' = minHostsOf(got.obj.Annotations)
                  /\ requiredHosts' = min(desired', minHostsVal')
                  /\ IF singleReplica(desired')
                     THEN pc' = "done" /\ status' = NewStatus(Success, <<>>)
                     ELSE pc' = "list" /\ status' = status
  /\ UNCHANGED <<pod, nodeName, ctxDone, ctrlStore, podStore, podListErr,
                 controller, bindings>>

\* The pod listing and the spread check.
FilterList ==
  /\ pc = "list"
  /\ LET listed == podListerList(podStore, podListErr, ctxDone) IN
       /\ reads' = Append(reads, [op |-> "List", kind |-> "Pod", name |-> "",
                                  ok |-> listed.err = NoErr, ctx |-> ctxDone])
       /\ status' = IF listed.err # NoErr
                    THEN listFailedStatus(listed.err)
                    ELSE spreadStatus(listed.pods, controller, requiredHosts,
                                      nodeName)
  /\ pc' = "done"
  /\ UNCHANGED <<pod, nodeName, ctxDone, ctrlStore, podStore, podListErr,
                 controller, desired, minHostsVal, requiredHosts, bindings>>

\* The framework cancels ctx (or its deadline passes) while Filter runs.
Cancel ==
  /\ pc \in {"start", "fetch", "list"}
  /\ ~ctxDone
  /\ ctxDone' = TRUE
  /\ UNCHANGED <<pod, nodeName, ctrlStore, podStore, podListErr, pc,
                 controller, desired, minHostsVal, requiredHosts, status, reads, bindings>>

---------------------------------------------------------------------------
(* Inputs of one Filter invocation *)

SeqsUpTo(S, n) == UNION {[1..k -> S] : k \in 0..n}

Nodes == {"n1", "n2", "n3"}

PodNames == <<"p1", "p2", "p3", "p4", "p5", "p6">>

OwnerRef(k, u, n) == [Kind |-> k, UID |-> u, Name |-> n]

\* Owner references met on pods: the four recognized kinds, an unrecognized
\* kind, references lacking a UID or a name, and a controller that is not
\* in the store.
OwnerRefs ==
  {OwnerRef(k, "u1", "a") : k \in ControllerTypes \cup {"DaemonSet"}}
    \cup {OwnerRef(ReplicaSetType, "", "a"), OwnerRef(JobType, "u1", ""),
          OwnerRef(StatefulSetType, "u2", "b")}

Object(count, annotations) == [count |-> count, Annotations |-> annotations]

Annotated(val) == [k \in {minHostsAnnotationKey} |-> val]

Counts == {<<>>} \cup {<<n>> : n \in 0..MaxDesired}

AnnAlphabet == {"1", "2", "3", "-", "x"}

LongAnnValues ==
  {<<"+", "3">>, <<"0", "3">>, <<"1", "0">>,
   <<"2", "1", "4", "7", "4", "8", "3", "6", "4", "7">>,
   <<"2", "1", "4", "7", "4", "8", "3", "6", "4", "8">>,
   <<"-", "2", "1", "4", "7", "4", "8", "3", "6", "4", "8">>,
   <<"9", "9", "9", "9", "9", "9", "9", "9", "9", "9", "9">>}

AnnValues == SeqsUpTo(AnnAlphabet, MaxAnnLen) \cup LongAnnValues

\* The object the other three listers hold under the same name.
OtherObject == Object(<<MaxDesired + 1>>, Annotated(<<"9">>))

EmptyStore == [key \in {} |-> OtherObject]

\* Every kind has an object named "a"; the one of kind k is obj.
StoreFor(k, obj) ==
  [key \in {<<kk, "a">> : kk \in ControllerTypes} |->
     IF key[1] = k THEN obj ELSE OtherObject]

\* The same, without the object of kind k.
StoreWithout(k) ==
  [key \in {<<kk, "a">> : kk \in ControllerTypes \ {k}} |-> OtherObject]

PhaseAt == <<PodPending, PodRunning, PodSucceeded>>

NodeAt == <<"", "n1", "n2">>

OtherKind(k) == IF k = JobType THEN ReplicaSetType ELSE JobType

\* The kinds of pod a listing holds, relative to the owner reference own of
\* the pod being filtered: 1..9 siblings in three phases on no node, n1, n2;
\* 10 a failed sibling; 11 a sibling matched by its second reference, under
\* another name; 12 a pod of another UID; 13 a pod of another kind.
ListedKind(i, own) ==
  IF i <= 9 THEN [OwnerReferences |-> <<own>>,
                  Phase |-> PhaseAt[((i - 1) \div 3) + 1],
                  NodeName |-> NodeAt[((i - 1) % 3) + 1]]
  ELSE IF i = 10 THEN [OwnerReferences |-> <<own>>, Phase |-> PodFailed,
                       NodeName |-> "n3"]
  ELSE IF i = 11 THEN [OwnerReferences |->
                         <<OwnerRef("DaemonSet", own.UID, own.Name),
                           OwnerRef(own.Kind, own.UID, "renamed")>>,
                       Phase |-> PodRunning, NodeName |-> "n2"]
  ELSE IF i = 12 THEN [OwnerReferences |-> <<OwnerRef(own.Kind, "u2", own.Name)>>,
                       Phase |-> PodRunning, NodeName |-> "n3"]
  ELSE [OwnerReferences |-> <<OwnerRef(OtherKind(own.Kind), own.UID, own.Name)>>,
        Phase |-> PodRunning, NodeName |-> "n3"]

ListedKinds == 1..13

\* The pods of a listing, named by position.
Listing(s, own) ==
  {[Name |-> PodNames[j],
    OwnerReferences |-> ListedKind(s[j], own).OwnerReferences,
    Phase |-> ListedKind(s[j], own).Phase,
    NodeName |-> ListedKind(s[j], own).NodeName] : j \in 1..Len(s)}

\* Listings of up to n pods; the lister returns pods in no particular order,
\* so one order per multiset is enumerated.
Listings(n, own) ==
  {Listing(s, own) :
     s \in {t \in SeqsUpTo(ListedKinds, n) :
              \A j \in 1..(Len(t) - 1) : t[j] <= t[j + 1]}}

\* The pod handed to Filter: pending, not yet bound.
NewPod(name, refs) ==
  [Name |-> name, OwnerReferences |-> refs, Phase |-> PodPending, NodeName |-> ""]

\* The locals and outputs of an invocation that has not started.
FreshCall ==
  /\ pc = "start"
  /\ controller = NoController
  /\ desired = 0
  /\ minHostsVal = 0
  /\ requiredHosts = 0
  /\ status = NoStatus
  /\ reads = <<>>

\* Any owner list, against a full or an empty store.
InitOwners ==
  /\ pod \in {NewPod("p0", refs) : refs \in SeqsUpTo(OwnerRefs, MaxOwners)}
  /\ ctrlStore \in {EmptyStore, StoreFor(ReplicaSetType, Object(<<2>>, NoAnnotations))}
  /\ podStore \in {Listing(<<>>, OwnerRef(ReplicaSetType, "u1", "a")),
                   Listing(<<2, 5>>, OwnerRef(ReplicaSetType, "u1", "a"))}
  /\ podListErr = NoErr
  /\ nodeName \in {"n1", "n3"}
  /\ ctxDone \in BOOLEAN
  /\ bindings = {}
  /\ FreshCall

\* Any controller object of any kind, or none.
InitPolicy ==
  \E k \in ControllerTypes :
    /\ pod = NewPod("p0", <<OwnerRef(k, "u1", "a")>>)
    /\ ctrlStore \in {StoreFor(k, Object(c, a)) :
                        c \in Counts,
                        a \in {NoAnnotations} \cup {Annotated(v) : v \in AnnValues}}
                     \cup {StoreWithout(k)}
    /\ podStore \in {Listing(<<>>, OwnerRef(k, "u1", "a")),
                     Listing(<<1, 5, 5>>, OwnerRef(k, "u1", "a"))}
    /\ podListErr = NoErr
    /\ nodeName \in {"n1", "n3"}
    /\ ctxDone \in BOOLEAN
    /\ bindings = {}
  /\ FreshCall

\* Any listing, under a controller that asks for a spread.
InitPlacement ==
  LET own == OwnerRef(ReplicaSetType, "u1", "a") IN
    /\ pod = NewPod("p0", <<own>>)
    /\ ctrlStore \in {StoreFor(ReplicaSetType, Object(<<c>>, a)) :
                        c \in 2..MaxDesired,
                        a \in {NoAnnotations, Annotated(<<"1">>), Annotated(<<"3">>)}}
    /\ podStore \in Listings(MaxListed, own)
    /\ podListErr \in {NoErr, <<"store unavailable">>}
    /\ nodeName \in Nodes
    /\ ctxDone = FALSE
    /\ bindings = {}
  /\ FreshCall

Init == InitOwners \/ InitPolicy \/ InitPlacement

Next == FilterResolve \/ FilterFetch \/ FilterList \/ Cancel

Spec == Init /\ [][Next]_vars

---------------------------------------------------------------------------
(* Scheduling cycles over one cluster: the framework calls Filter for a     *)
(* pending pod and a node, and binds the pod only where Filter admitted.    *)
(* The pod lister shows every binding as soon as it is made.                *)

ControllerA == OwnerRef(ReplicaSetType, "u1", "a")

ControllerB == OwnerRef(JobType, "u2", "b")

ClusterControllers == {ControllerA, ControllerB}

\* The pod of the store that the current cycle is about.
CurrentPod == CHOOSE p \in podStore : p.Name = pod.Name

\* Between two cycles no invocation is in progress.
NoCall ==
  /\ controller = NoController
  /\ desired = 0
  /\ minHostsVal = 0
  /\ requiredHosts = 0
  /\ status = NoStatus
  /\ reads = <<>>

InitSched ==
  /\ ctrlStore \in
       {[key \in {<<ReplicaSetType, "a">>, <<JobType, "b">>} |->
           IF key[1] = ReplicaSetType THEN Object(<<c>>, a)
           ELSE Object(<<2>>, NoAnnotations)] :
          c \in 1..3, a \in {NoAnnotations, Annotated(<<"3">>)}}
  /\ podStore = {}
  /\ podListErr = NoErr
  /\ ctxDone = FALSE
  /\ pod = NewPod("", <<>>)
  /\ nodeName = ""
  /\ pc = "idle"
  /\ bindings = {}
  /\ NoCall

\* A controller creates a pod: pending, on no node.
CreatePod ==
  /\ Cardinality(podStore) < MaxClusterPods
  /\ \E own \in ClusterControllers :
       podStore' = podStore \cup {NewPod(PodNames[Cardinality(podStore) + 1], <<own>>)}
  /\ UNCHANGED <<pod, nodeName, ctxDone, ctrlStore, podListErr, pc,
                 controller, desired, minHostsVal, requiredHosts, status, reads, bindings>>

\* The framework starts Filter for an unbound pod and a candidate node.
StartCycle ==
  /\ pc = "idle"
  /\ \E p \in {q \in podStore : /\ q.NodeName = "" /\ q.Phase = PodPending
                                 /\ \A b \in bindings : b[1] # q.Name} :
       pod' = p
  /\ nodeName' \in Nodes
  /\ pc' = "start"
  /\ UNCHANGED <<ctxDone, ctrlStore, podStore, podListErr,
                 controller, desired, minHostsVal, requiredHosts, status, reads, bindings>>

\* The framework binds the pod to the node Filter admitted.
Bind ==
  /\ pc = "done"
  /\ status.code = Success
  /\ podStore' = (podStore \ {CurrentPod})
                    \cup {[CurrentPod EXCEPT !.NodeName = nodeName]}
  /\ pc' = "idle"
  /\ pod' = NewPod("", <<>>)
  /\ nodeName' = ""
  /\ controller' = NoController
  /\ desired' = 0
  /\ minHostsVal' = 0
  /\ requiredHosts' = 0
  /\ status' = NoStatus
  /\ reads' = <<>>
  /\ UNCHANGED <<ctxDone, ctrlStore, podListErr, bindings>>

\* The cycle ends without a binding to this node.
EndCycle ==
  /\ pc = "done"
  /\ pc' = "idle"
  /\ pod' = NewPod("", <<>>)
  /\ nodeName' = ""
  /\ controller' = NoController
  /\ desired' = 0
  /\ minHostsVal' = 0
  /\ requiredHosts' = 0
  /\ status' = NoStatus
  /\ reads' = <<>>
  /\ UNCHANGED <<ctxDone, ctrlStore, podStore, podListErr, bindings>>

\* The kubelet starts a bound pod.
StartPod ==
  /\ \E p \in {q \in podStore : q.NodeName # "" /\ q.Phase = PodPending} :
       podStore' = (podStore \ {p}) \cup {[p EXCEPT !.Phase = PodRunning]}
  /\ UNCHANGED <<pod, nodeName, ctxDone, ctrlStore, podListErr, pc,
                 controller, desired, minHostsVal, requiredHosts, status, reads, bindings>>

NextSched ==
  \/ CreatePod \/ StartCycle \/ FilterResolve \/ FilterFetch \/ FilterList
  \/ Bind \/ EndCycle \/ StartPod

SpecSched == InitSched /\ [][NextSched]_vars

---------------------------------------------------------------------------
(* Overlapping cycles: a binding is made at the API server and reaches the  *)
(* pod lister later, so the cycle of a sibling that reads the listing in    *)
(* between does not see it. Filter invocations that overlap read the same   *)
(* lister content as invocations that follow each other before the binding  *)
(* is observed, which is what is modelled.                                  *)

\* The framework binds the pod where Filter admitted; the lister lags.
BindAsync ==
  /\ pc = "done"
  /\ status.code = Success
  /\ bindings' = bindings \cup {<<pod.Name, nodeName>>}
  /\ pc' = "idle"
  /\ pod' = NewPod("", <<>>)
  /\ nodeName' = ""
  /\ controller' = NoController
  /\ desired' = 0
  /\ minHostsVal' = 0
  /\ requiredHosts' = 0
  /\ status' = NoStatus
  /\ reads' = <<>>
  /\ UNCHANGED <<ctxDone, ctrlStore, podStore, podListErr>>

\* The informer delivers a binding to the pod lister.
ObserveBinding ==
  /\ \E b \in bindings :
       /\ podStore' = {IF p.Name = b[1] THEN [p EXCEPT !.NodeName = b[2]] ELSE p :
                         p \in podStore}
       /\ bindings' = bindings \ {b}
  /\ UNCHANGED <<pod, nodeName, ctxDone, ctrlStore, podListErr, pc,
                 controller, desired, minHostsVal, requiredHosts, status, reads>>

NextRace ==
  \/ CreatePod \/ StartCycle \/ FilterResolve \/ FilterFetch \/ FilterList
  \/ BindAsync \/ ObserveBinding \/ EndCycle \/ StartPod

SpecRace == InitSched /\ [][NextRace]_vars

---------------------------------------------------------------------------
(* Vocabulary of the properties, stated over the inputs of the invocation *)

\* The controller lookup was made and returned an object.
Fetched == \E i \in DOMAIN reads : reads[i].op = "Get" /\ reads[i].ok

\* The controller lookup was made and failed.
LookupFailed == \E i \in DOMAIN reads : reads[i].op = "Get" /\ ~reads[i].ok

\* The pod listing was made.
ListedPods == \E i \in DOMAIN reads : reads[i].op = "List"

Returned == pc = "done"

Admitted == Returned /\ status.code = Success

Rejected == Returned /\ status.code = Unschedulable

Failed == Returned /\ status.code = Error

\* The object the lookup returned (meaningful when Fetched).
FetchedObject == ctrlStore[<<controller.Type, controller.Name>>]

\* desiredCount of the fetched object: its count, 1 when unset.
DesiredCount ==
  IF FetchedObject.count = <<>> THEN 1 ELSE FetchedObject.count[1]

HasAnnotation == minHostsAnnotationKey \in DOMAIN FetchedObject.Annotations

AnnotationValue == FetchedObject.Annotations[minHostsAnnotationKey]

\* Sibling pods of the listing in phase Pending or Running.
ActiveSiblings ==
  {p \in podStore :
     /\ \E i \in DOMAIN p.OwnerReferences :
           /\ p.OwnerReferences[i].Kind = controller.Type
           /\ p.OwnerReferences[i].UID = controller.UID
     /\ p.Phase \in {PodPending, PodRunning}}

\* The placement snapshot: the distinct nodes hosting active siblings.
Snapshot == {p.NodeName : p \in ActiveSiblings} \ {""}

EffectiveSpread ==
  Cardinality(Snapshot) + (IF nodeName \in Snapshot THEN 0 ELSE 1)

\* The reason of a rejection states the number n in decimal.
ReasonStates(n) ==
  /\ Len(status.reason) >= 3
  /\ LET num == ParseInt32(SubSeq(status.reason, 2, Len(status.reason) - 1))
     IN num.err = "" /\ num.val = n

SpreadVerdict ==
  IF EffectiveSpread >= requiredHosts
  THEN Admitted
  ELSE Rejected /\ ReasonStates(requiredHosts)

\* s is an optional sign followed by one or more decimal digits.
IsDecimal(s) ==
  LET from == IF Len(s) > 0 /\ s[1] \in {"+", "-"} THEN 2 ELSE 1 IN
    /\ Len(s) >= from
    /\ \A i \in from..Len(s) : s[i] \in {"0", "1", "2", "3", "4", "5", "6", "7", "8", "9"}

\* The value of the digits s[i..] after n, and whether it exceeds 2^31 - 1.
RECURSIVE DecimalFrom(_, _, _)
DecimalFrom(s, i, n) ==
  IF i > Len(s) THEN [val |-> n, over |-> FALSE]
  ELSE LET d == CHOOSE v \in 0..9 : Digits[v + 1] = s[i] IN
       IF n > (MaxInt32 - d) \div 10
       THEN [val |-> MaxInt32, over |-> TRUE]
       ELSE DecimalFrom(s, i + 1, 10 * n + d)

Negative(s) == s[1] = "-"

Magnitude(s) == DecimalFrom(s, IF s[1] \in {"+", "-"} THEN 2 ELSE 1, 0)

\* The override with no upper bound on the annotation value; a value above
\* 2^31 - 1 stands as 2^31 - 1, which no desired count exceeds.
UnboundedOverride ==
  IF ~HasAnnotation \/ ~IsDecimal(AnnotationValue) THEN 2
  ELSE IF Negative(AnnotationValue) \/ Magnitude(AnnotationValue).val < 2 THEN 2
  ELSE Magnitude(AnnotationValue).val

\* The override when values above 2^31 - 1 count as unparseable.
Int32Override ==
  IF ~HasAnnotation \/ ~IsDecimal(AnnotationValue) THEN 2
  ELSE IF Negative(AnnotationValue) \/ Magnitude(AnnotationValue).val < 2 THEN 2
  ELSE IF Magnitude(AnnotationValue).over THEN 2
  ELSE Magnitude(AnnotationValue).val

Smaller(a, b) == IF a <= b THEN a ELSE b

\* Positions of the owner references Filter may act on.
Eligible ==
  {i \in DOMAIN pod.OwnerReferences :
     /\ pod.OwnerReferences[i].Kind \in
          {"ReplicaSet", "StatefulSet", "Job", "CronJob"}
     /\ pod.OwnerReferences[i].UID # ""
     /\ pod.OwnerReferences[i].Name # ""}

FirstEligible == CHOOSE i \in Eligible : \A j \in Eligible : i <= j

---------------------------------------------------------------------------
(* Properties *)

\* C1 (as stated): with a fetched desiredCount >= 2 and a successful listing,
\* Filter admits iff effectiveSpread >= requiredHosts and otherwise rejects
\* with requiredHosts in the reason, for every snapshot, also those with
\* zero or one listed sibling.
C1_AllSnapshots ==
  (Returned /\ Fetched /\ DesiredCount >= 2 /\ podListErr = NoErr)
     => SpreadVerdict

\* C1 (amended): the same verdict whenever the listing holds at least two
\* active siblings; with zero or one active sibling listed Filter admits
\* without comparing the spread.
C1_SpreadVerdict ==
  (Returned /\ Fetched /\ DesiredCount >= 2 /\ podListErr = NoErr)
     => IF Cardinality(ActiveSiblings) >= 2 THEN SpreadVerdict ELSE Admitted

\* C1 witness: a rejection on a candidate node that already hosts a sibling,
\* two nodes occupied and three required.
C1_Witness ==
  /\ Rejected /\ Fetched /\ requiredHosts = 3
  /\ Cardinality(Snapshot) = 2 /\ nodeName \in Snapshot

C4_SingleReplicaAdmits ==
  (Returned /\ Fetched /\ DesiredCount <= 1) => (Admitted /\ ~ListedPods)

\* C4 witness: an unset count, an annotation of 3, and two active siblings
\* already on the candidate node.
C4_Witness ==
  /\ Admitted /\ Fetched /\ FetchedObject.count = <<>>
  /\ HasAnnotation /\ AnnotationValue = <<"3">>
  /\ Cardinality({p \in ActiveSiblings : p.NodeName = nodeName}) >= 2

\* C5: for each of the four kinds, a failed controller lookup yields Admit,
\* and no pod listing is made.
C5_LookupFailureAdmits ==
  \A k \in {"ReplicaSet", "StatefulSet", "Job", "CronJob"} :
    (Returned /\ controller.Type = k
       /\ <<k, controller.Name>> \notin DOMAIN ctrlStore)
      => (Admitted /\ LookupFailed /\ ~ListedPods)

\* C5 witness: the CronJob named by the pod is missing while the pod store
\* holds siblings on the candidate node.
C5_Witness ==
  /\ Returned /\ LookupFailed /\ controller.Type = "CronJob"
  /\ Cardinality({p \in ActiveSiblings : p.NodeName = nodeName}) >= 2

\* C6: a failed pod listing yields Error with a populated cause, never
\* Admit or Reject.
C6_ListFailureIsError ==
  (Returned /\ ListedPods /\ podListErr # NoErr)
     => /\ Failed
        /\ Len(status.reason) > Len(podListErr)
        /\ SubSeq(status.reason, Len(status.reason) - Len(podListErr) + 1,
                  Len(status.reason)) = podListErr

\* C6 witness: the listing fails where a readable store would reject.
C6_Witness ==
  /\ Failed /\ ListedPods /\ podListErr # NoErr
  /\ Cardinality(ActiveSiblings) >= 2 /\ EffectiveSpread < requiredHosts

\* C7: Filter acts on the first owner reference of a recognized kind with a
\* non-empty UID and name; without one it admits and reads no store.
C7_FirstEligibleOwner ==
  pc # "start" =>
    IF Eligible = {}
    THEN Admitted /\ reads = <<>> /\ controller = NoController
    ELSE /\ controller.Type = pod.OwnerReferences[FirstEligible].Kind
         /\ controller.UID = pod.OwnerReferences[FirstEligible].UID
         /\ controller.Name = pod.OwnerReferences[FirstEligible].Name
         /\ \A i \in DOMAIN reads :
              reads[i].op = "Get" =>
                /\ reads[i].kind = pod.OwnerReferences[FirstEligible].Kind
                /\ reads[i].name = pod.OwnerReferences[FirstEligible].Name

\* C7 witness: a reference without UID is skipped and the second one is
\* looked up.
C7_Witness ==
  /\ Returned /\ Len(pod.OwnerReferences) = 2
  /\ pod.OwnerReferences[1].Kind = "ReplicaSet" /\ pod.OwnerReferences[1].UID = ""
  /\ controller.Type = "Job" /\ Len(reads) >= 1

\* C7 second witness: no eligible owner among two references.
C7_WitnessNone ==
  /\ Returned /\ Len(pod.OwnerReferences) = 2 /\ Eligible = {}

C9_WithinOneAndDesired ==
  (Fetched /\ DesiredCount >= 0)
    => (1 <= requiredHosts /\ requiredHosts <= DesiredCount)

\* C9 (amended): whenever requiredHosts is computed, requiredHosts <=
\* desiredCount; it is at least 1 when desiredCount >= 1 and is 0 when the
\* stored desiredCount is 0.
C9_AtMostDesired ==
  (Fetched /\ DesiredCount >= 0)
    => /\ requiredHosts <= DesiredCount
       /\ DesiredCount >= 1 => requiredHosts >= 1
       /\ DesiredCount = 0 => requiredHosts = 0

\* C9 witness: a stored count of 0 under an annotation of 3.
C9_Witness ==
  /\ Fetched /\ FetchedObject.count = <<0>> /\ requiredHosts = 0
  /\ HasAnnotation /\ AnnotationValue = <<"3">>

\* C10 (as stated): once the context is cancelled, Filter makes no further
\* store read and returns Error.
C10_CancelledIsError ==
  [][ctxDone => /\ reads' = reads
                /\ (pc # "done" /\ pc' = "done") => status'.code = Error]_vars

\* C10 (amended): Filter does not consult its context; cancelled or not, it
\* returns Error exactly when the pod listing it made failed, and Admit or
\* Reject otherwise.
C10_ContextIgnored ==
  Returned => /\ status.code \in {Success, Unschedulable, Error}
              /\ Failed <=> (ListedPods /\ podListErr # NoErr)

\* C10 witness: both reads made under a context cancelled from the start,
\* ending in a rejection.
C10_Witness ==
  /\ Rejected /\ Len(reads) = 2 /\ reads[1].ctx /\ reads[2].ctx

\* The active pods of controller c that are bound to a node.
BoundActive(c) ==
  {p \in podStore :
     /\ \E i \in DOMAIN p.OwnerReferences :
          p.OwnerReferences[i].Kind = c.Kind /\ p.OwnerReferences[i].UID = c.UID
     /\ p.Phase \in {PodPending, PodRunning}
     /\ p.NodeName # ""}

TrueNode(p) ==
  IF \E b \in bindings : b[1] = p.Name
  THEN (CHOOSE b \in bindings : b[1] = p.Name)[2]
  ELSE p.NodeName

\* The active pods of controller c that are bound, at the API server.
TrulyBound(c) ==
  {p \in podStore :
     /\ \E i \in DOMAIN p.OwnerReferences :
          p.OwnerReferences[i].Kind = c.Kind /\ p.OwnerReferences[i].UID = c.UID
     /\ p.Phase \in {PodPending, PodRunning}
     /\ TrueNode(p) # ""}

\* requiredHosts of controller c as Filter computes it from the store.
RequiredOf(c) ==
  min(desiredOf(ctrlStore[<<c.Kind, c.Name>>]),
      minHostsOf(ctrlStore[<<c.Kind, c.Name>>].Annotations))

\* A sibling of the pod in the current cycle has a binding to the candidate
\* node that the lister does not show, and no pod of the controller is bound
\* to another node.
StaleSameNode ==
  /\ Fetched /\ requiredHosts >= 2
  /\ \E b \in bindings :
       /\ b[2] = nodeName
       /\ \E p \in ActiveSiblings : p.Name = b[1] /\ p.Name # pod.Name
  /\ \A p \in ActiveSiblings : TrueNode(p) \in {"", nodeName}

C11_WitnessBoth ==
  /\ Cardinality({b \in bindings :
                    \E p \in TrulyBound(ControllerA) : p.Name = b[1]}) = 2
  /\ RequiredOf(ControllerA) = 2

\* C12: a pending pod of a controller with desiredCount >= 2, in a cluster
\* of at least requiredHosts nodes, is admitted on at least one candidate
\* node in every reachable listing state: a rejection on one node comes with
\* an admission on another.
C12_SomeNodeAdmits ==
  (Rejected /\ Fetched /\ DesiredCount >= 2
     /\ Cardinality(Nodes) >= requiredHosts /\ CurrentPod \in podStore)
    => \E n \in Nodes :
         spreadStatus(podStore, controller, requiredHosts, n).code = Success

====
